---- MODULE Spec2Model ----
(***************************************************************************)
(* Refresh-token ledger of the xdose backends: issueTokens,                *)
(* revokeRefreshToken, rotateRefreshToken and the /auth endpoints that     *)
(* call them.  Every `await pool.execute(...)` is one atomic statement of  *)
(* the store.  An action is one such statement together with the           *)
(* synchronous JavaScript that leads to it (which touches nothing but the  *)
(* request's own locals and the clock); requests interleave between        *)
(* statements, and the clock may advance between them.                     *)
(*                                                                         *)
(* The clock counts seconds (the granularity of a JWT's iat/exp); a day    *)
(* lasts DayTicks of them.                                                 *)
(***************************************************************************)
EXTENDS Integers, Sequences, FiniteSets, TLC

VARIABLES
    now,      \* the server clock (Date.now(), NOW(), the JWT clock), in seconds
    ledger,   \* t_refresh_token: the rows in token_id order
    procs,    \* the requests in flight, one per slot
    minted,   \* the refresh tokens signed so far by issueTokens
    rotated,  \* history: the tokens for which rotateRefreshToken returned ok
    calls,    \* the number of requests received so far
    loggedOut,\* history: <<t, known>> for every completed revokeRefreshToken(t),
              \* known telling whether the ledger held a row for t at that time
    env,      \* process.env: the two signing secrets and the time zone (TZ),
              \* read once the process runs
    m_user,   \* the table m_user: the rows in the order of their user_id, a
              \* deleted row leaving its place empty (user_id is not reused)
    m_organization, \* the table m_organization, in organization_id order
    records,  \* the tables behind the record routers (m_group of
              \* createCrudRouter, m_moderator), each in the order of its key
    products, \* the table products of app.js, in id order
    reqs      \* the requests of the record routers in flight, one per slot

\* the state of the record routers and of app.js
crud == <<m_organization, records, products, reqs>>

vars == <<now, ledger, procs, minted, rotated, calls, loggedOut, env, m_user,
          m_organization, records, products, reqs>>

---------------------------------------------------------------------------
(* Bounds *)

MaxTime == 3
DayTicks == 2
MaxCalls == 3
MaxUsers == 2
MaxOrgs == 2
MaxRecords == 2
MaxProducts == 2

\* two request slots: every race of the ledger is a race of two requests
Procs == {1, 2}

---------------------------------------------------------------------------
(* Configuration *)

\* an environment variable that is not set
Absent == ""
\* the environment with both secrets set, in a time zone without daylight
\* saving time
Configured ==
    [ACCESS_TOKEN_SECRET |-> "access-secret", REFRESH_TOKEN_SECRET |-> "refresh-secret",
     TZ |-> "UTC"]
\* the environments with a secret missing
Misconfigured ==
    {e \in [ACCESS_TOKEN_SECRET : {Absent, Configured.ACCESS_TOKEN_SECRET},
             REFRESH_TOKEN_SECRET : {Absent, Configured.REFRESH_TOKEN_SECRET},
             TZ : {Configured.TZ}] :
        e # Configured}

ACCESS_TOKEN_SECRET == env.ACCESS_TOKEN_SECRET
REFRESH_TOKEN_SECRET == env.REFRESH_TOKEN_SECRET
\* ACCESS_TOKEN_EXPIRES_IN, in seconds
ACCESS_EXPIRES_IN == 1
\* REFRESH_TOKEN_EXPIRES_DAYS (configured to one day; the default is 7)
REFRESH_DAYS == 1

NULL == 0 - 1

---------------------------------------------------------------------------
(* Token codec *)

NoPayload == [sub |-> "", typ |-> ""]
NoToken == [hdr |-> "none", key |-> "", payload |-> NoPayload, iat |-> 0, exp |-> 0]
\* a string that is no JWT at all
Garbage == [hdr |-> "garbage-string", key |-> "", payload |-> NoPayload, iat |-> 0, exp |-> 0]

\* jwt.sign(payload, secret, {expiresIn}): the string is a function of the
\* payload, the key and the second of issue
JwtSign(payload, secret, ttl, t) ==
    [hdr |-> "jwt", key |-> secret, payload |-> payload, iat |-> t, exp |-> t + ttl]

\* mutant of JwtVerify: the token is decoded, its signature is not checked
JwtVerify_Decode(token, secret, t) ==
    /\ token.hdr = "jwt"
    /\ t < token.exp

\* jwt.verify(token, secret): structure, signature, then embedded expiry
JwtVerify(token, secret, t) ==
    /\ token.hdr = "jwt"
    /\ secret # Absent
    /\ token.key = secret
    /\ t < token.exp

\* one-way and taken to be collision free
sha256Hex(s) == [alg |-> "sha256", of |-> s]

\* mutant of SignThrows: jwt.sign accepts an absent secret
SignThrows_Never == FALSE

\* jwt.sign throws 'secretOrPrivateKey must have a value' when the secret is
\* absent: signAccessToken or signRefreshToken of issueTokens throws
SignThrows == ACCESS_TOKEN_SECRET = Absent \/ REFRESH_TOKEN_SECRET = Absent

\* mutant of signAccessToken: signed with the refresh secret
signAccessToken_RefreshKey(payload, t) ==
    JwtSign(payload, REFRESH_TOKEN_SECRET, ACCESS_EXPIRES_IN, t)

signAccessToken(payload, t) == JwtSign(payload, ACCESS_TOKEN_SECRET, ACCESS_EXPIRES_IN, t)

signRefreshToken(payload, t) ==
    JwtSign(payload, REFRESH_TOKEN_SECRET, REFRESH_DAYS * DayTicks, t)

\* the local clocks of the time zone "DST" are put forward by DstShift at the
\* instant DstAt
DstAt == 1
DstShift == 1

\* the local calendar time a Date shows (getDate)
LocalTime(t) == IF env.TZ = "DST" /\ t >= DstAt THEN t + DstShift ELSE t

\* the instant of a local calendar time (setDate); a local time the
\* transition skips is read with the offset in force before it
InstantOf(w) == IF env.TZ = "DST" /\ w >= DstAt + DstShift THEN w - DstShift ELSE w

\* d = new Date(); d.setDate(d.getDate() + REFRESH_DAYS): the same local
\* time of day, REFRESH_DAYS calendar days later
refreshExpiresAt(t) == InstantOf(LocalTime(t) + REFRESH_DAYS * DayTicks)

\* { sub: String(subjectId), typ: subjectType, ...extra }: extra's keys win
IssueBase(subjectType, subjectId, extra) ==
    extra @@ [sub |-> ToString(subjectId), typ |-> subjectType]

---------------------------------------------------------------------------
(* Ledger statements *)

NoRow == [token_id |-> 0, subject_type |-> "", subject_id |-> 0,
          token_hash |-> sha256Hex(NoToken), expires_at |-> 0, revoked_at |-> NULL]

\* the unique index on token_hash
DuplicateHash(L, h) == \E i \in DOMAIN L : L[i].token_hash = h

\* mutant of InsertRow: one session per subject, the subject's earlier rows
\* are dropped by the INSERT
InsertRow_OnePerSubject(L, subjectType, subjectId, tokenHash, expiresAt) ==
    LET keep == SelectSeq(L, LAMBDA r : ~(r.subject_type = subjectType /\ r.subject_id = subjectId))
    IN  Append(keep, [token_id |-> Len(L) + 1, subject_type |-> subjectType,
                      subject_id |-> subjectId, token_hash |-> tokenHash,
                      expires_at |-> expiresAt, revoked_at |-> NULL])

\* INSERT INTO t_refresh_token (subject_type, subject_id, token_hash, expires_at)
InsertRow(L, subjectType, subjectId, tokenHash, expiresAt) ==
    Append(L, [token_id |-> Len(L) + 1, subject_type |-> subjectType,
               subject_id |-> subjectId, token_hash |-> tokenHash,
               expires_at |-> expiresAt, revoked_at |-> NULL])

\* SELECT ... WHERE token_hash = ? (LIMIT 1 then takes any one of them)
SelectByHash(L, h) == {L[i] : i \in {j \in DOMAIN L : L[j].token_hash = h}}

\* mutants of RevokeByHash: the UPDATE without AND revoked_at IS NULL; the
\* UPDATE without the token_hash condition; the UPDATE matches no row
RevokeByHash_NoMatch(L, h, t) == L

RevokeByHash_Overwrite(L, h, t) ==
    [i \in DOMAIN L |->
        IF L[i].token_hash = h THEN [L[i] EXCEPT !.revoked_at = t] ELSE L[i]]

RevokeByHash_AnyHash(L, h, t) ==
    [i \in DOMAIN L |->
        IF L[i].revoked_at = NULL THEN [L[i] EXCEPT !.revoked_at = t] ELSE L[i]]

\* UPDATE ... SET revoked_at = NOW() WHERE token_hash = ? AND revoked_at IS NULL
RevokeByHash(L, h, t) ==
    [i \in DOMAIN L |->
        IF L[i].token_hash = h /\ L[i].revoked_at = NULL
        THEN [L[i] EXCEPT !.revoked_at = t] ELSE L[i]]

\* mutants of RevokeById: the UPDATE matches no row; the UPDATE is keyed by
\* the wrong id; the UPDATE also sets expires_at
RevokeById_ExpireToo(L, id, t) ==
    [i \in DOMAIN L |->
        IF L[i].token_id = id
        THEN [L[i] EXCEPT !.revoked_at = t, !.expires_at = t] ELSE L[i]]

RevokeById_NoMatch(L, id, t) == L

RevokeById_WrongRow(L, id, t) ==
    [i \in DOMAIN L |->
        IF L[i].token_id = id + 1 THEN [L[i] EXCEPT !.revoked_at = t] ELSE L[i]]

\* UPDATE ... SET revoked_at = NOW() WHERE token_id = ?
RevokeById(L, id, t) ==
    [i \in DOMAIN L |->
        IF L[i].token_id = id THEN [L[i] EXCEPT !.revoked_at = t] ELSE L[i]]

\* mutants of RotateCheck: no not-found check; expiry checked before
\* revocation; no expiry check
RotateCheck_NoLookupCheck(row, t) ==
    IF row.revoked_at # NULL THEN "Refresh token revoked"
    ELSE IF row.expires_at < t THEN "Refresh token expired"
    ELSE ""

RotateCheck_ExpiryFirst(row, t) ==
    IF row = NoRow THEN "Refresh token not found"
    ELSE IF row.expires_at < t THEN "Refresh token expired"
    ELSE IF row.revoked_at # NULL THEN "Refresh token revoked"
    ELSE ""

RotateCheck_NoExpiry(row, t) ==
    IF row = NoRow THEN "Refresh token not found"
    ELSE IF row.revoked_at # NULL THEN "Refresh token revoked"
    ELSE ""

\* the checks of rotateRefreshToken on the selected row, in the code's order;
\* "" when all pass
RotateCheck(row, t) ==
    IF row = NoRow THEN "Refresh token not found"
    ELSE IF row.revoked_at # NULL THEN "Refresh token revoked"
    ELSE IF row.expires_at < t THEN "Refresh token expired"
    ELSE ""

---------------------------------------------------------------------------
(* Subjects and the claim extras each login endpoint passes *)

Subjects == {[typ |-> "user", id |-> 42], [typ |-> "moderator", id |-> 1]}

\* the subjects whose table has the column active_status
Deactivatable == {s \in Subjects : s.typ = "user"}

\* what request bodies hold as email and as password
Emails == {"a@x", "b@x"}
Passwords == {"pw1", "pw2"}

\* bcrypt.hash(password, SALT_ROUNDS), and a password stored as it was sent
bcryptHash(password) == [alg |-> "bcrypt", of |-> password]
Plain(password) == [alg |-> "none", of |-> password]

\* bcrypt.compare(password, stored): false for the wrong password and for a
\* stored value that is no bcrypt hash
bcryptCompare(password, stored) == stored.alg = "bcrypt" /\ stored.of = password

\* the user_id of the first row of m_user, and the place of a user_id
FirstUserId == 42
UserIndex(id) == id - FirstUserId + 1

\* the place a deleted row leaves
NoUser == [user_id |-> 0, email |-> "", password |-> Plain(""), active_status |-> 0]

\* the user the model starts with, and the password that user knows
KnownUser ==
    [user_id |-> FirstUserId, email |-> "a@x", password |-> bcryptHash("pw1"),
     active_status |-> 1]
KnownPassword == "pw1"

\* SELECT ... FROM m_user WHERE user_id = ? / WHERE email = ?
UserExists(U, id) == UserIndex(id) \in DOMAIN U /\ U[UserIndex(id)] # NoUser
SelectUserByEmail(U, e) == {U[i] : i \in {j \in DOMAIN U : U[j] # NoUser /\ U[j].email = e}}

\* POST /auth/user/login once the row is there: 'User inactive' before the
\* password is compared, then 'Invalid credentials', else "" (issueTokens)
LoginCheck(user, password) ==
    IF user.active_status = 0 THEN "User inactive"
    ELSE IF ~bcryptCompare(password, user.password) THEN "Invalid credentials"
    ELSE ""

LoginExtra(s) ==
    IF s.typ = "user"
    THEN [role |-> "user", organization_id |-> 1, group_id |-> 1, license |-> "L1"]
    ELSE [role |-> s.typ]

\* mutants of RotateExtra: a role claim is added; sub taken from the row's
\* token_id
RotateExtra_KeepRole(row) ==
    [typ |-> row.subject_type, sub |-> ToString(row.subject_id), role |-> row.subject_type]

RotateExtra_TokenId(row) == [typ |-> row.subject_type, sub |-> ToString(row.token_id)]

\* what rotateRefreshToken passes as extra
RotateExtra(row) == [typ |-> row.subject_type, sub |-> ToString(row.subject_id)]

---------------------------------------------------------------------------
(* Requests *)

NoResult == [kind |-> "none", reason |-> ""]
Ok == [kind |-> "ok", reason |-> ""]
Failure(reason) == [kind |-> "fail", reason |-> reason]
Thrown(code) == [kind |-> "throw", reason |-> code]

\* op, pc: the handler and where it stands; token: the refresh_token of the
\* body; email, password: those of the body of a user login; row, matches: what the SELECT returned and how many rows matched;
\* subjectType .. expiresAt: the locals of issueTokens; stmts: the statements
\* the request has executed; newId: the row its INSERT created; after: the
\* token had already been rotated with success when the request came in;
\* afterRevoke: a revokeRefreshToken of the token had already completed when
\* the request came in (for a rotation: one that found the token's row);
\* orphan: the row names a user whose record had been deleted when the
\* request came in;
\* stale: the row was already revoked in the ledger when the rotation
\* executed its UPDATE
Idle ==
    [op |-> "idle", pc |-> "idle", token |-> NoToken, email |-> "", password |-> "",
     row |-> NoRow, matches |-> 0,
     subjectType |-> "", subjectId |-> 0, base |-> NoPayload,
     accessToken |-> NoToken, refreshToken |-> NoToken, expiresAt |-> 0,
     stmts |-> <<>>, newId |-> 0, after |-> FALSE, afterRevoke |-> FALSE,
     stale |-> FALSE, orphan |-> FALSE, res |-> NoResult]

\* the access token signed together with refresh token r
AccessOf(r) == signAccessToken(r.payload, r.iat)

\* what a client may send as refresh_token: a refresh token, the access token
\* that came with one, or a string that is no token
Presentable == minted \cup {AccessOf(r) : r \in minted} \cup {Garbage}

\* a slot is free before its first request and once its response is sent
\* (pc "done": the slot keeps the response until the next request takes it);
\* slots are interchangeable, so a new request takes the lowest free one
Free(q) == q.pc \in {"idle", "done"}

FreeSlot(p) ==
    /\ Free(procs[p])
    /\ \A q \in Procs : Free(procs[q]) => p <= q

\* a request comes in
Accept(p) ==
    /\ FreeSlot(p)
    /\ calls < MaxCalls
    /\ calls' = calls + 1

\* the tables of the record routers: one served by createCrudRouter, and
\* m_moderator with its own router
Tables == {"m_group", "m_moderator"}

\* a row of such a table: its key and one updatable column; the place a
\* deleted row leaves; rows[0] of an empty result
Values == {"v1", "v2"}
NoRecord == [id |-> 0, value |-> ""]
Undefined == [id |-> 0 - 1, value |-> ""]

\* SELECT ... WHERE pk = ? on such a table
SelectRecord(T, id) == IF id \in DOMAIN T /\ T[id] # NoRecord THEN {T[id]} ELSE {}

\* what generateOrgCode may return
Codes == {"AAAAAA", "BBBBBB"}

\* the characters of the keys of /products/:key: digits, a hexadecimal
\* letter and a letter that is neither
KeyChars == {"0", "1", "2", "a", "z"}
HexChars == {"0", "1", "2", "a"}

\* the length of an _id (24 in the code), and the keys: the strings of up to
\* that many characters
OidLen == 2
Keys == UNION {[1 .. n -> KeyChars] : n \in 1 .. OidLen}

\* the decimal digits and the value of a character as a digit (-1: none)
Digits == <<"0", "1", "2", "3", "4", "5", "6", "7", "8", "9">>
DigitVal(c) ==
    IF \E i \in DOMAIN Digits : Digits[i] = c
    THEN (CHOOSE i \in DOMAIN Digits : Digits[i] = c) - 1
    ELSE 0 - 1

\* Number(key) for a key of these characters: its decimal value, or NaN (-1)
\* when a character is no digit
RECURSIVE Number(_)
Number(key) ==
    IF key = <<>> THEN 0
    ELSE LET front == SubSeq(key, 1, Len(key) - 1)
             d == DigitVal(key[Len(key)])
         IN  IF d < 0 \/ Number(front) < 0 THEN 0 - 1 ELSE Number(front) * 10 + d

\* String(id), the key a client sends for a numeric id
String(id) == <<Digits[id + 1]>>

isPositiveInt(val) == Number(val) > 0

\* /^[a-fA-F0-9]{24}$/
isObjectId24(val) == Len(val) = OidLen /\ \A i \in DOMAIN val : val[i] \in HexChars

\* what new ObjectId().toHexString() may return: the leading characters
\* are those of the creation time, which are not zero
ObjectIds == {k \in Keys : isObjectId24(k) /\ k[1] # "0"}

\* resolveKey: the column and the parameter of the lookup, null for a key
\* of neither form
NoKey == [keyType |-> "", id |-> 0, oid |-> <<>>]
resolveKey(key) ==
    IF isPositiveInt(key) THEN [keyType |-> "id", id |-> Number(key), oid |-> <<>>]
    ELSE IF isObjectId24(key) THEN [keyType |-> "_id", id |-> 0, oid |-> key]
    ELSE NoKey

\* SELECT * FROM products WHERE <column> = ? LIMIT 1
SelectProduct(P, r) ==
    {P[i] : i \in {j \in DOMAIN P : IF r.keyType = "id" THEN P[j].id = r.id
                                                       ELSE P[j]._id = r.oid}}

\* a request of a record router: op, pc: the handler and where it stands;
\* table, id, value, email, key: the route and the body; code: the orgCode
\* of the handler; row: what its first SELECT returned; keyType: what
\* resolveKey returned; res, data: the answer
NoReq ==
    [op |-> "idle", pc |-> "idle", table |-> "", id |-> 0, value |-> "", email |-> "",
     key |-> <<>>, code |-> "", row |-> NoRecord, keyType |-> "", res |-> NoResult,
     data |-> NoRecord]

\* every table but those of the record routers starts empty
InitCrud ==
    /\ m_organization = <<>>
    /\ records = [tb \in Tables |-> <<[id |-> 1, value |-> "v1"]>>]
    /\ products = <<>>
    /\ reqs = [p \in Procs |-> NoReq]

Init ==
    /\ now = 0
    /\ ledger = <<>>
    /\ procs = [p \in Procs |-> Idle]
    /\ minted = {}
    /\ rotated = {}
    /\ calls = 0
    /\ loggedOut = {}
    /\ env = Configured
    /\ m_user = <<KnownUser>>
    /\ InitCrud

\* issueTokens as called by request q at time t: the locals once both tokens
\* are signed, the hash and the expiry computed
IssueLocals(q, subjectType, subjectId, extra, t) ==
    LET base == IssueBase(subjectType, subjectId, extra)
    IN  [q EXCEPT !.subjectType = subjectType, !.subjectId = subjectId, !.base = base,
                  !.accessToken = signAccessToken(base, t),
                  !.refreshToken = signRefreshToken(base, t),
                  !.expiresAt = refreshExpiresAt(t)]

\* mutant of IssueInsert: INSERT IGNORE, a refused duplicate is not an error
\* and the call returns its pair
IssueInsert_IgnoreDup(p, q) ==
    LET h == sha256Hex(q.refreshToken)
    IN  /\ minted' = minted \cup {q.refreshToken}
        /\ UNCHANGED <<loggedOut, env, m_user, crud>>
        /\ ledger' = IF DuplicateHash(ledger, h) THEN ledger
                      ELSE InsertRow(ledger, q.subjectType, q.subjectId, h, q.expiresAt)
        /\ procs' = [procs EXCEPT ![p] =
                [q EXCEPT !.pc = "done", !.res = Ok,
                          !.newId = IF DuplicateHash(ledger, h) THEN 0 ELSE Len(ledger) + 1,
                          !.stmts = Append(q.stmts, "INSERT")]]
        /\ rotated' = IF q.op = "refresh" THEN rotated \cup {q.token} ELSE rotated

\* what jwt.sign throws for an absent secret (an Error without a code)
SignError == "secretOrPrivateKey must have a value"

\* the signing and the INSERT of issueTokens and its return: q holds the
\* locals; jwt.sign throws before any statement when a secret is absent;
\* otherwise the store either takes the row, or refuses it (the unique index,
\* a fault); an error propagates to the caller's caller
IssueInsert(p, q) ==
    LET h == sha256Hex(q.refreshToken)
    IN  IF SignThrows
        THEN /\ procs' = [procs EXCEPT ![p] =
                     [q EXCEPT !.pc = "done", !.res = Thrown(SignError),
                               !.accessToken = IF ACCESS_TOKEN_SECRET = Absent
                                               THEN NoToken ELSE q.accessToken,
                               !.refreshToken = NoToken, !.expiresAt = 0]]
             /\ UNCHANGED <<ledger, minted, rotated, loggedOut, env, m_user, crud>>
        ELSE /\ minted' = minted \cup {q.refreshToken}
             /\ UNCHANGED <<loggedOut, env, m_user, crud>>
             /\ \/ /\ ~DuplicateHash(ledger, h)
                   /\ ledger' = InsertRow(ledger, q.subjectType, q.subjectId, h, q.expiresAt)
                   /\ procs' = [procs EXCEPT ![p] =
                           [q EXCEPT !.pc = "done", !.res = Ok, !.newId = Len(ledger) + 1,
                                     !.stmts = Append(q.stmts, "INSERT")]]
                   /\ rotated' = IF q.op = "refresh" THEN rotated \cup {q.token}
                                                      ELSE rotated
                \/ /\ \E code \in {"ER_DUP_ENTRY", "ECONNRESET"} :
                         /\ code = "ER_DUP_ENTRY" => DuplicateHash(ledger, h)
                         /\ procs' = [procs EXCEPT ![p] =
                                 [q EXCEPT !.pc = "done", !.res = Thrown(code),
                                           !.stmts = Append(q.stmts, "INSERT")]]
                   /\ UNCHANGED <<ledger, rotated>>

\* the object a successful rotateRefreshToken returns, q holding its locals:
\* { ok: true, ...tokens }
RotateReturn(q) ==
    [ok |-> TRUE, accessToken |-> q.accessToken, refreshToken |-> q.refreshToken,
     expiresAt |-> q.expiresAt]

\* POST /auth/user/login with email e and a password: 401 when no row has
\* the email, else LoginCheck on the row found (LIMIT 1), then issueTokens
\* (the SELECT of the row is taken together with the INSERT of issueTokens)
UserLogin(p, e, password) ==
    LET rows == SelectUserByEmail(m_user, e)
        q == [Idle EXCEPT !.op = "login", !.subjectType = "user",
                          !.email = e, !.password = password]
    IN  /\ Accept(p)
        /\ IF rows = {}
           THEN /\ procs' = [procs EXCEPT ![p] =
                        [q EXCEPT !.pc = "done", !.res = Failure("Invalid credentials")]]
                /\ UNCHANGED <<ledger, minted, rotated, loggedOut, env, m_user, crud>>
           ELSE \E user \in rows :
                    IF LoginCheck(user, password) # ""
                    THEN /\ procs' = [procs EXCEPT ![p] =
                                 [q EXCEPT !.pc = "done", !.subjectId = user.user_id,
                                           !.res = Failure(LoginCheck(user, password))]]
                         /\ UNCHANGED <<ledger, minted, rotated, loggedOut, env, m_user, crud>>
                    ELSE IssueInsert(p, IssueLocals(q, "user", user.user_id,
                                 LoginExtra([typ |-> "user", id |-> user.user_id]), now))
        /\ UNCHANGED now

\* a login endpoint called by a subject of the model with its own email and
\* password: the user login, or the moderator login, which has passed its
\* password check and calls issueTokens
Login(p, s) ==
    IF s.typ = "user"
    THEN UserLogin(p, KnownUser.email, KnownPassword)
    ELSE /\ Accept(p)
         /\ IssueInsert(p, IssueLocals([Idle EXCEPT !.op = "login"], s.typ, s.id,
                                       LoginExtra(s), now))
         /\ UNCHANGED now

\* POST /auth/refresh: rotateRefreshToken verifies the token and SELECTs the
\* row by token_hash, LIMIT 1
Refresh(p, t) ==
    LET q == [Idle EXCEPT !.op = "refresh", !.token = t, !.after = (t \in rotated),
                          !.afterRevoke = (<<t, TRUE>> \in loggedOut)]
        rows == SelectByHash(ledger, sha256Hex(t))
    IN  /\ Accept(p)
        /\ t \in Presentable
        /\ IF JwtVerify(t, REFRESH_TOKEN_SECRET, now)
           THEN \E row \in (IF rows = {} THEN {NoRow} ELSE rows) :
                    procs' = [procs EXCEPT ![p] =
                        [q EXCEPT !.pc = "rot_check", !.row = row,
                                  !.orphan = (row.subject_type = "user" /\
                                              ~UserExists(m_user, row.subject_id)),
                                  !.matches = Cardinality(rows), !.stmts = <<"SELECT">>]]
           ELSE procs' = [procs EXCEPT ![p] =
                    [q EXCEPT !.pc = "done", !.res = Failure("Invalid refresh token")]]
        /\ UNCHANGED <<now, ledger, minted, rotated, loggedOut, env, m_user, crud>>

\* mutant of RotRevoke: the UPDATE is executed for every row found, before
\* the revoked and expired checks
RotRevoke_RevokeFirst(p) ==
    LET q == procs[p]
        reason == RotateCheck(q.row, now)
    IN  /\ q.pc = "rot_check"
        /\ ledger' = RevokeById(ledger, q.row.token_id, now)
        /\ IF reason = ""
           THEN procs' = [procs EXCEPT
                        ![p].pc = "rot_issue",
                        ![p].stale = (\E i \in DOMAIN ledger :
                                         /\ ledger[i].token_id = q.row.token_id
                                         /\ ledger[i].revoked_at # NULL),
                        ![p].stmts = Append(q.stmts, "UPDATE")]
           ELSE procs' = [procs EXCEPT ![p].pc = "done", ![p].res = Failure(reason)]
        /\ UNCHANGED <<now, minted, rotated, calls, loggedOut, env, m_user, crud>>

\* rotateRefreshToken after the SELECT: not found / revoked / expired, else
\* the UPDATE that revokes the old row
RotRevoke(p) ==
    LET q == procs[p]
        reason == RotateCheck(q.row, now)
    IN  /\ q.pc = "rot_check"
        /\ IF reason = ""
           THEN /\ ledger' = RevokeById(ledger, q.row.token_id, now)
                /\ procs' = [procs EXCEPT
                        ![p].pc = "rot_issue",
                        ![p].stale = (\E i \in DOMAIN ledger :
                                         /\ ledger[i].token_id = q.row.token_id
                                         /\ ledger[i].revoked_at # NULL),
                        ![p].stmts = Append(q.stmts, "UPDATE")]
           ELSE /\ procs' = [procs EXCEPT ![p].pc = "done", ![p].res = Failure(reason)]
                /\ UNCHANGED ledger
        /\ UNCHANGED <<now, minted, rotated, calls, loggedOut, env, m_user, crud>>

\* rotateRefreshToken after the UPDATE: issueTokens for the row's subject
RotIssue(p) ==
    LET q == procs[p]
    IN  /\ q.pc = "rot_issue"
        /\ IssueInsert(p, IssueLocals(q, q.row.subject_type, q.row.subject_id,
                                      RotateExtra(q.row), now))
        /\ UNCHANGED <<now, calls>>

\* POST /auth/logout: revokeRefreshToken, one UPDATE
Logout(p, t) ==
    /\ Accept(p)
    /\ t \in Presentable
    /\ ledger' = RevokeByHash(ledger, sha256Hex(t), now)
    /\ procs' = [procs EXCEPT ![p] =
            [Idle EXCEPT !.op = "logout", !.pc = "done", !.token = t,
                         !.afterRevoke = (\E known \in BOOLEAN : <<t, known>> \in loggedOut),
                         !.stmts = <<"UPDATE">>, !.res = Ok]]
    /\ loggedOut' = loggedOut \cup {<<t, SelectByHash(ledger, sha256Hex(t)) # {}>>}
    /\ UNCHANGED <<now, minted, rotated, env, m_user, crud>>

Tick ==
    /\ now < MaxTime
    /\ now' = now + 1
    /\ UNCHANGED <<ledger, procs, minted, rotated, calls, loggedOut, env, m_user, crud>>

Next ==
    \/ \E p \in Procs, s \in Subjects : Login(p, s)
    \/ \E p \in Procs, t \in Presentable : Refresh(p, t)
    \/ \E p \in Procs : RotRevoke(p)
    \/ \E p \in Procs : RotIssue(p)
    \/ \E p \in Procs, t \in Presentable : Logout(p, t)
    \/ Tick

Spec == Init /\ [][Next]_vars

\* res.status(code).json({ status, message, data }): the status code and the
\* message of an answer
Response(code, message) == [code |-> code, message |-> message]

\* the central error handler, app.use((err, req, res, next) => ...)
ErrorHandler(code) ==
    IF code = "ER_NO_REFERENCED_ROW_2"
    THEN Response(400, "Foreign key constraint failed (referenced id not found)")
    ELSE IF code = "ER_DUP_ENTRY"
         THEN Response(409, "Duplicate entry")
         ELSE Response(500, "Internal server error")

\* mutant of RefreshAnswer: fail(res, r.reason) with the default code
RefreshAnswer_DefaultCode(r) ==
    IF r.kind = "fail" THEN Response(400, r.reason)
                       ELSE Response(200, "Refresh successful")

\* POST /auth/refresh once rotateRefreshToken has returned r
RefreshAnswer(r) ==
    IF r.kind = "fail" THEN Response(401, r.reason)
                       ELSE Response(200, "Refresh successful")

\* what the handler of the finished request q answers: its own answer, or the
\* error handler's when an error was passed to next(e)
Answer(q) ==
    IF q.res.kind = "throw" THEN ErrorHandler(q.res.reason)
    ELSE IF q.op = "refresh" THEN RefreshAnswer(q.res)
    ELSE IF q.op = "logout"
         THEN IF q.res.kind = "fail" THEN Response(400, q.res.reason)
                                     ELSE Response(200, "Logout successful")
    ELSE IF q.res.kind = "fail"
         THEN Response(IF q.res.reason = "User inactive" THEN 403 ELSE 401, q.res.reason)
    ELSE IF q.subjectType = "moderator"
         THEN Response(200, "Moderator login successful")
         ELSE Response(200, "User login successful")

\* what the JSON body may hold as refresh_token besides a non-empty string:
\* nothing or a falsy value (undefined, null, "", 0, false), or a truthy
\* value that is no string (a number, an object, an array, true)
OddBodies == {"falsy", "non-string"}

\* POST /auth/logout with such a body: the handler answers 400 for a falsy
\* value; for the other, sha256Hex throws inside revokeRefreshToken
\* (hash.update takes a string or a buffer) before any statement
LogoutBody(p, b) ==
    /\ Accept(p)
    /\ b \in OddBodies
    /\ procs' = [procs EXCEPT ![p] =
            [Idle EXCEPT !.op = "logout", !.pc = "done",
                         !.res = IF b = "falsy"
                                 THEN Failure("refresh_token is required")
                                 ELSE Thrown("ERR_INVALID_ARG_TYPE")]]
    /\ UNCHANGED <<now, ledger, minted, rotated, loggedOut, env, m_user, crud>>

NextBody ==
    \/ Next
    \/ \E p \in Procs, b \in OddBodies : LogoutBody(p, b)

\* the endpoints with every JSON value a body may hold as refresh_token
SpecBody == Init /\ [][NextBody]_vars

\* the refresh token of a user login made by an earlier run of the process,
\* when both secrets were set
PriorToken ==
    JwtSign(IssueBase("user", 42, LoginExtra([typ |-> "user", id |-> 42])),
            Configured.REFRESH_TOKEN_SECRET, REFRESH_DAYS * DayTicks, 0)

\* the process starts with a secret missing, against a ledger that holds the
\* row of a token issued a moment earlier by a correctly configured run
InitEnv ==
    /\ env \in Misconfigured
    /\ now = 0
    /\ ledger = InsertRow(<<>>, "user", 42, sha256Hex(PriorToken), refreshExpiresAt(0))
    /\ procs = [p \in Procs |-> Idle]
    /\ minted = {PriorToken}
    /\ rotated = {}
    /\ calls = 0
    /\ loggedOut = {}
    /\ m_user = <<KnownUser>>
    /\ InitCrud

SpecEnv == InitEnv /\ [][Next]_vars

\* the process runs in a time zone whose clocks are put forward while the
\* first tokens are alive
InitDst ==
    /\ env = [Configured EXCEPT !.TZ = "DST"]
    /\ now = 0
    /\ ledger = <<>>
    /\ procs = [p \in Procs |-> Idle]
    /\ minted = {}
    /\ rotated = {}
    /\ calls = 0
    /\ loggedOut = {}
    /\ m_user = <<KnownUser>>
    /\ InitCrud

SpecDst == InitDst /\ [][Next]_vars

\* PATCH /users/:id with { active_status: v }, its UPDATE of m_user
PatchUser(s, v) ==
    /\ s \in Deactivatable
    /\ UserExists(m_user, s.id)
    /\ m_user[UserIndex(s.id)].active_status # v
    /\ m_user' = [m_user EXCEPT ![UserIndex(s.id)].active_status = v]
    /\ UNCHANGED <<now, ledger, procs, minted, rotated, calls, loggedOut, env, crud>>

\* DELETE /users/:id for a row that is there, its DELETE statement
DeleteUser(id) ==
    /\ UserExists(m_user, id)
    /\ m_user' = [m_user EXCEPT ![UserIndex(id)] = NoUser]
    /\ UNCHANGED <<now, ledger, procs, minted, rotated, calls, loggedOut, env, crud>>

\* the INSERT of a POST /users that the unique index on email lets through:
\* the new row, stored holding what the handler made of the password
InsertUser(U, e, stored, a) ==
    Append(U, [user_id |-> FirstUserId + Len(U), email |-> e, password |-> stored,
               active_status |-> a])

\* POST /users of userRouter with email, password and active_status: the
\* password is hashed, the row inserted ('User email already exists'
\* otherwise)
CreateUser(e, password, a) ==
    /\ Len(m_user) < MaxUsers
    /\ SelectUserByEmail(m_user, e) = {}
    /\ m_user' = InsertUser(m_user, e, bcryptHash(password), a)
    /\ UNCHANGED <<now, ledger, procs, minted, rotated, calls, loggedOut, env, crud>>

NextActive ==
    \/ Next
    \/ \E s \in Deactivatable, v \in {0, 1} : PatchUser(s, v)

\* the /auth endpoints next to the user administration
SpecActive == Init /\ [][NextActive]_vars

NextUsers ==
    \/ Next
    \/ \E p \in Procs, e \in Emails, password \in Passwords : UserLogin(p, e, password)
    \/ \E e \in Emails, password \in Passwords, a \in {0, 1} : CreateUser(e, password, a)
    \/ \E s \in Deactivatable, v \in {0, 1} : PatchUser(s, v)
    \/ \E id \in FirstUserId .. FirstUserId + MaxUsers - 1 : DeleteUser(id)

\* the /auth endpoints next to the endpoints of /users
SpecUsers == Init /\ [][NextUsers]_vars

\* POST /users where /users is a createCrudRouter: the fields of the body,
\* password included, are inserted as they were sent
CrudCreateUser(e, password, a) ==
    /\ Len(m_user) < MaxUsers
    /\ SelectUserByEmail(m_user, e) = {}
    /\ m_user' = InsertUser(m_user, e, Plain(password), a)
    /\ UNCHANGED <<now, ledger, procs, minted, rotated, calls, loggedOut, env, crud>>

NextCrudUsers ==
    \/ Next
    \/ \E p \in Procs, e \in Emails, password \in Passwords : UserLogin(p, e, password)
    \/ \E e \in Emails, password \in Passwords, a \in {0, 1} : CrudCreateUser(e, password, a)

\* the /auth endpoints next to a /users served by createCrudRouter
SpecCrudUsers == Init /\ [][NextCrudUsers]_vars

---------------------------------------------------------------------------
(* The record routers *)

\* the /auth endpoints, their ledger and m_user
auth == <<now, ledger, procs, minted, rotated, calls, loggedOut, env, m_user>>

\* a slot whose request has been answered is free; the lowest one is taken
FreeReq(p) ==
    /\ reqs[p].pc \in {"idle", "done"}
    /\ \A q \in Procs : reqs[q].pc \in {"idle", "done"} => p <= q

\* SELECT organization_id FROM m_organization WHERE code = ? LIMIT 1
SelectOrgByCode(O, c) == {O[i] : i \in {j \in DOMAIN O : O[j].code = c}}

\* the rows the unique index on email refuses the INSERT for
SelectOrgByEmail(O, e) == {O[i] : i \in {j \in DOMAIN O : O[j].email = e}}

\* POST /organizations with name, email and password and without code: the
\* body is checked and the password hashed
OrgPost(p, e) ==
    /\ FreeReq(p)
    /\ Len(m_organization)
         + Cardinality({q \in Procs : reqs[q].op = "org_post" /\ reqs[q].pc # "done"})
             < MaxOrgs
    /\ reqs' = [reqs EXCEPT ![p] =
            [NoReq EXCEPT !.op = "org_post", !.pc = "generate", !.email = e]]
    /\ UNCHANGED <<auth, m_organization, records, products>>

\* one turn of the loop: generateOrgCode returns c and the SELECT tells
\* whether a row holds it
OrgCodeCheck(p, c) ==
    /\ reqs[p].op = "org_post" /\ reqs[p].pc = "generate"
    /\ c \in Codes
    /\ reqs' = [reqs EXCEPT ![p].code = c,
                            ![p].pc = IF SelectOrgByCode(m_organization, c) # {}
                                      THEN "generate" ELSE "insert"]
    /\ UNCHANGED <<auth, m_organization, records, products>>

\* the INSERT and the answer: the row is stored, or a unique index refuses
\* it and the handler answers 409 for any ER_DUP_ENTRY; email has such an
\* index, and code has one or not (the table definition decides)
OrgInsert(p) ==
    LET q == reqs[p]
        dupEmail == SelectOrgByEmail(m_organization, q.email) # {}
        dupCode == SelectOrgByCode(m_organization, q.code) # {}
    IN  /\ q.op = "org_post" /\ q.pc = "insert"
        /\ \/ /\ ~dupEmail
              /\ m_organization' = Append(m_organization,
                     [organization_id |-> Len(m_organization) + 1,
                      email |-> q.email, code |-> q.code])
              /\ reqs' = [reqs EXCEPT ![p].pc = "done", ![p].res = Ok,
                                      ![p].id = Len(m_organization) + 1]
           \/ /\ dupEmail \/ dupCode
              /\ reqs' = [reqs EXCEPT ![p].pc = "done",
                              ![p].res = Failure("Organization email already exists")]
              /\ UNCHANGED m_organization
        /\ UNCHANGED <<auth, records, products>>

NextOrgs ==
    \/ \E p \in Procs, e \in Emails : OrgPost(p, e)
    \/ \E p \in Procs, c \in Codes : OrgCodeCheck(p, c)
    \/ \E p \in Procs : OrgInsert(p)

\* POST /organizations, requests without code
SpecOrgs == Init /\ [][NextOrgs]_vars

\* INSERT, UPDATE ... WHERE pk = ? and DELETE ... WHERE pk = ? on a table of
\* a record router; the last two change nothing when no row has the key
InsertRecord(T, v) == Append(T, [id |-> Len(T) + 1, value |-> v])
UpdateRecord(T, id, v) ==
    IF SelectRecord(T, id) # {} THEN [T EXCEPT ![id].value = v] ELSE T
DeleteRecord(T, id) ==
    IF SelectRecord(T, id) # {} THEN [T EXCEPT ![id] = NoRecord] ELSE T

\* the 404 message of the router of table tb
NotFoundMessage(tb) == IF tb = "m_moderator" THEN "Moderator not found" ELSE "Not found"

\* POST / of a record router, its INSERT
CrudCreate(tb, v) ==
    /\ Len(records[tb]) < MaxRecords
    /\ records' = [records EXCEPT ![tb] = InsertRecord(@, v)]
    /\ UNCHANGED <<auth, m_organization, products, reqs>>

\* DELETE /:id of a record router: the SELECT of the row, 404 without one
DeleteSelect(p, tb, id) ==
    LET rows == SelectRecord(records[tb], id)
        q == [NoReq EXCEPT !.op = "delete", !.table = tb, !.id = id]
    IN  /\ FreeReq(p)
        /\ reqs' = [reqs EXCEPT ![p] =
                IF rows = {}
                THEN [q EXCEPT !.pc = "done", !.res = Failure(NotFoundMessage(tb))]
                ELSE [q EXCEPT !.pc = "delete", !.row = CHOOSE r \in rows : TRUE]]
        /\ UNCHANGED <<auth, m_organization, records, products>>

\* DELETE /:id: the DELETE statement, answered with the row read before
DeleteExec(p) ==
    LET q == reqs[p]
    IN  /\ q.op = "delete" /\ q.pc = "delete"
        /\ records' = [records EXCEPT ![q.table] = DeleteRecord(@, q.id)]
        /\ reqs' = [reqs EXCEPT ![p].pc = "done", ![p].res = Ok, ![p].data = q.row]
        /\ UNCHANGED <<auth, m_organization, products>>

\* PATCH /:id and PUT /:id of createCrudRouter: the SELECT that tells whether
\* the row is there, 404 without one
PatchSelect(p, op, id, v) ==
    LET q == [NoReq EXCEPT !.op = op, !.table = "m_group", !.id = id, !.value = v]
    IN  /\ FreeReq(p)
        /\ op \in {"patch", "put"}
        /\ reqs' = [reqs EXCEPT ![p] =
                IF SelectRecord(records["m_group"], id) = {}
                THEN [q EXCEPT !.pc = "done", !.res = Failure(NotFoundMessage("m_group"))]
                ELSE [q EXCEPT !.pc = "update"]]
        /\ UNCHANGED <<auth, m_organization, records, products>>

\* PATCH /:id and PUT /:id of createCrudRouter: the UPDATE
PatchUpdate(p) ==
    LET q == reqs[p]
    IN  /\ q.op \in {"patch", "put"} /\ q.pc = "update"
        /\ records' = [records EXCEPT ![q.table] = UpdateRecord(@, q.id, q.value)]
        /\ reqs' = [reqs EXCEPT ![p].pc = "read"]
        /\ UNCHANGED <<auth, m_organization, products>>

\* PATCH /:id of moderatorRouter: the UPDATE is its first statement
ModPatch(p, id, v) ==
    /\ FreeReq(p)
    /\ records' = [records EXCEPT !["m_moderator"] = UpdateRecord(@, id, v)]
    /\ reqs' = [reqs EXCEPT ![p] =
            [NoReq EXCEPT !.op = "patch", !.pc = "read", !.table = "m_moderator",
                          !.id = id, !.value = v]]
    /\ UNCHANGED <<auth, m_organization, products>>

\* PATCH / PUT: the SELECT of the row after the UPDATE, answered with rows[0]
PatchRead(p) ==
    LET q == reqs[p]
        rows == SelectRecord(records[q.table], q.id)
    IN  /\ q.op \in {"patch", "put"} /\ q.pc = "read"
        /\ reqs' = [reqs EXCEPT ![p].pc = "done", ![p].res = Ok,
                                ![p].data = IF rows = {} THEN Undefined
                                            ELSE CHOOSE r \in rows : TRUE]
        /\ UNCHANGED <<auth, m_organization, records, products>>

NextRecords ==
    \/ \E tb \in Tables, v \in Values : CrudCreate(tb, v)
    \/ \E p \in Procs, tb \in Tables, id \in 1 .. MaxRecords : DeleteSelect(p, tb, id)
    \/ \E p \in Procs : DeleteExec(p)
    \/ \E p \in Procs, op \in {"patch", "put"}, id \in 1 .. MaxRecords, v \in Values :
          PatchSelect(p, op, id, v)
    \/ \E p \in Procs : PatchUpdate(p)
    \/ \E p \in Procs, id \in 1 .. MaxRecords, v \in Values : ModPatch(p, id, v)
    \/ \E p \in Procs : PatchRead(p)

\* the record routers: createCrudRouter on m_group, moderatorRouter
SpecRecords == Init /\ [][NextRecords]_vars

\* POST /products: the INSERT of a row with a new _id that the unique index
\* on _id lets through (409 'Duplicate _id, please retry' otherwise)
CreateProduct(oid) ==
    /\ Len(products) < MaxProducts
    /\ oid \in ObjectIds
    /\ \A i \in DOMAIN products : products[i]._id # oid
    /\ products' = Append(products, [id |-> Len(products) + 1, _id |-> oid])
    /\ UNCHANGED <<auth, m_organization, records, reqs>>

\* GET /products/:key: resolveKey, the SELECT and the answer
GetProduct(p, key) ==
    LET r == resolveKey(key)
        rows == SelectProduct(products, r)
        q == [NoReq EXCEPT !.op = "get", !.pc = "done", !.key = key,
                           !.keyType = r.keyType]
    IN  /\ FreeReq(p)
        /\ key \in Keys
        /\ reqs' = [reqs EXCEPT ![p] =
                IF r = NoKey
                THEN [q EXCEPT !.res = Failure("Invalid key format")]
                ELSE IF rows = {}
                THEN [q EXCEPT !.res = Failure("Product not found")]
                ELSE [q EXCEPT !.res = Ok,
                               !.data = [NoRecord EXCEPT
                                            !.id = (CHOOSE row \in rows : TRUE).id]]]
        /\ UNCHANGED <<auth, m_organization, records, products>>

NextProducts ==
    \/ \E oid \in ObjectIds : CreateProduct(oid)
    \/ \E p \in Procs, key \in Keys : GetProduct(p, key)

\* the products API of app.js
SpecProducts == Init /\ [][NextProducts]_vars

---------------------------------------------------------------------------
(* Properties *)

Invalid == Failure("Invalid refresh token")
NotFound == Failure("Refresh token not found")
Revoked == Failure("Refresh token revoked")
Expired == Failure("Refresh token expired")

\* the rotateRefreshToken calls, running or answered
Rotations == {p \in Procs : procs[p].op = "refresh"}

\* the call has executed its UPDATE
Updated(q) == Len(q.stmts) >= 2

\* C1 as stated: a rotateRefreshToken(t) that comes in after a
\* rotateRefreshToken(t) returned success always fails with reason
\* 'Refresh token revoked'.
C1_SingleUse_AlwaysRevoked ==
    \A p \in Rotations :
        procs[p].after /\ procs[p].pc = "done" => procs[p].res = Revoked

\* C1 amended: a rotateRefreshToken(t) that comes in after a
\* rotateRefreshToken(t) returned success never gets past its checks and
\* never succeeds; it fails with 'Refresh token revoked', or with 'Invalid
\* refresh token' once the token's embedded expiry has passed.
C1_SingleUse ==
    \A p \in Rotations :
        LET q == procs[p]
        IN  q.after =>
              /\ q.pc \in {"rot_check", "done"}
              /\ ~Updated(q) /\ q.newId = 0
              /\ q.pc = "rot_check" => q.row # NoRow /\ q.row.revoked_at # NULL
              /\ q.pc = "done" =>
                    \/ q.res = Revoked
                    \/ q.res = Invalid /\ now >= q.token.exp

C1_Witness ==
    \E p \in Rotations :
        procs[p].after /\ procs[p].pc = "done" /\ procs[p].res = Revoked

\* the call read the row with revoked_at null and went on to revoke and issue
ObservedNull(q) == q.row # NoRow /\ q.row.revoked_at = NULL /\ Updated(q)

\* C2: of the rotateRefreshToken calls for one refresh token, at most one
\* observes revoked_at as null and goes on to issue a replacement.
C2_AtMostOneObserver ==
    \A p, r \in Rotations :
        (p # r /\ procs[p].token = procs[r].token
              /\ ObservedNull(procs[p]) /\ ObservedNull(procs[r])) => FALSE

\* C3: when a rotateRefreshToken call for a token has won (returned ok),
\* every other call for that token that passed verification and was answered
\* by the function itself (no error thrown by the store) got the failure
\* 'Refresh token revoked'.
C3_LosersRevoked ==
    \A p, r \in Rotations :
        (p # r /\ procs[p].token = procs[r].token /\ procs[p].res = Ok
              /\ procs[r].pc = "done" /\ procs[r].stmts # <<>>
              /\ procs[r].res.kind # "throw") => procs[r].res = Revoked

\* the step is request p's issueTokens returning its pair
IssueReturns(p) ==
    /\ procs'[p] # procs[p]
    /\ procs'[p].op \in {"login", "refresh"}
    /\ procs'[p].res = Ok

\* C4: a successful issueTokens(subjectType, subjectId, extra) appends
\* exactly one ledger row, with token_hash = sha256Hex(returned refresh
\* token), the subject of the arguments and revoked_at null, and leaves every
\* other row as it was.
C4_IssueAddsOneRow ==
    [][\A p \in Procs :
          IssueReturns(p) =>
            LET q == procs'[p]
                n == Len(ledger)
            IN  /\ Len(ledger') = n + 1
                /\ \A i \in 1..n : ledger'[i] = ledger[i]
                /\ ledger'[n + 1].token_hash = sha256Hex(q.refreshToken)
                /\ ledger'[n + 1].subject_type = q.subjectType
                /\ ledger'[n + 1].subject_id = q.subjectId
                /\ ledger'[n + 1].revoked_at = NULL
                /\ q.newId = ledger'[n + 1].token_id]_vars

\* a rotation has issued its replacement next to other rows, one of them still
\* usable
C4_Witness ==
    \E p \in Rotations :
        LET q == procs[p]
        IN  /\ q.res = Ok
            /\ Len(ledger) >= 3
            /\ ledger[q.newId].token_hash = sha256Hex(q.refreshToken)
            /\ \E i \in DOMAIN ledger : i # q.newId /\ ledger[i].revoked_at = NULL

\* C5: when the INSERT of issueTokens fails, the error propagates (no pair
\* is returned, no row is credited to the call) and the ledger holds no row
\* for the refresh token the call signed.
C5_FailedIssueLeavesNoRow ==
    \A p \in Procs :
        procs[p].res.kind = "throw" =>
            /\ procs[p].newId = 0
            /\ ~\E i \in DOMAIN ledger :
                    ledger[i].token_hash = sha256Hex(procs[p].refreshToken)

\* C6: rotateRefreshToken of a string that fails verification (no JWT, a
\* wrong signature, an embedded expiry that has passed) returns 'Invalid
\* refresh token' and executes no ledger statement, read or write.
C6_InvalidTouchesNothing ==
    \A p \in Rotations :
        LET q == procs[p]
        IN  /\ (q.token.hdr # "jwt" \/ q.token.key # REFRESH_TOKEN_SECRET) =>
                    q.pc = "done" /\ q.res = Invalid
            /\ q.res = Invalid =>
                    /\ q.stmts = <<>> /\ q.row = NoRow /\ q.newId = 0
                    /\ \/ q.token.hdr # "jwt"
                       \/ q.token.key # REFRESH_TOKEN_SECRET
                       \/ now >= q.token.exp

C6_Witness ==
    \E p \in Rotations :
        procs[p].token = Garbage /\ procs[p].res = Invalid /\ procs[p].stmts = <<>>

\* C7: rotateRefreshToken of a token that verifies but whose hash matches no
\* ledger row returns 'Refresh token not found', writes nothing and issues
\* nothing.
C7_NotFound ==
    \A p \in Rotations :
        LET q == procs[p]
        IN  (q.stmts # <<>> /\ q.matches = 0) =>
              /\ q.stmts = <<"SELECT">>
              /\ q.pc \in {"rot_check", "done"}
              /\ q.pc = "done" => q.res = NotFound
              /\ q.refreshToken = NoToken /\ q.newId = 0

C7_Witness ==
    \E p \in Rotations :
        LET q == procs[p]
        IN  /\ q.token.hdr = "jwt" /\ q.token.key = REFRESH_TOKEN_SECRET
            /\ q.matches = 0 /\ q.res = NotFound

\* C8: the failure rotateRefreshToken returns is that of the first failing
\* check in the order signature, lookup, revoked, expired: a call that
\* failed after its SELECT failed 'not found' if no row matched, else
\* 'revoked' if the row read was revoked (whether or not it was also past
\* its expiry), else 'expired'; and a call that went on had read an
\* unrevoked row.
C8_CheckOrder ==
    \A p \in Rotations :
        LET q == procs[p]
        IN  /\ (q.pc = "done" /\ q.res.kind = "fail") =>
                    q.res = IF q.stmts = <<>> THEN Invalid
                            ELSE IF q.matches = 0 THEN NotFound
                            ELSE IF q.row.revoked_at # NULL THEN Revoked
                            ELSE Expired
            /\ q.res = Expired => q.row.expires_at < now
            /\ Updated(q) => q.matches > 0 /\ q.row.revoked_at = NULL

\* a row both revoked and past its expires_at was answered 'revoked'
C8_Witness ==
    \E p \in Rotations :
        LET q == procs[p]
        IN  /\ q.pc = "done" /\ q.row # NoRow
            /\ q.row.revoked_at # NULL /\ q.row.expires_at < now
            /\ q.res = Revoked

\* C9: when rotateRefreshToken, having verified the token, checks an
\* unrevoked ledger row whose expires_at is in the past by the server clock,
\* it fails with 'Refresh token expired', leaves the ledger as it is and
\* issues no replacement.
C9_ExpiryEnforced ==
    [][\A p \in Procs :
          (/\ procs[p].pc = "rot_check"
           /\ procs'[p] # procs[p]
           /\ procs[p].row # NoRow
           /\ procs[p].row.revoked_at = NULL
           /\ procs[p].row.expires_at < now) =>
             /\ procs'[p].pc = "done"
             /\ procs'[p].res = Expired
             /\ procs'[p].newId = 0 /\ procs'[p].refreshToken = NoToken
             /\ ledger' = ledger]_vars

C9_Witness ==
    \E p \in Rotations :
        LET q == procs[p]
        IN  /\ q.pc = "done" /\ q.res = Expired
            /\ q.stmts = <<"SELECT">>
            /\ q.row # NoRow /\ q.row.revoked_at = NULL /\ q.row.expires_at < now

\* C10: in rotateRefreshToken the old entry is revoked before the
\* replacement is issued: issueTokens is reached only after the UPDATE, and
\* from the UPDATE on, whether the call is about to issue, has stopped there,
\* has failed in issueTokens or has returned, the old entry is revoked; a
\* call that stopped or failed after the UPDATE created no replacement
\* entry.
C10_RevokeBeforeIssue ==
    \A p \in Rotations :
        LET q == procs[p]
        IN  /\ (q.pc = "rot_issue" \/ q.refreshToken # NoToken) => Updated(q)
            /\ Updated(q) =>
                  /\ q.row.token_id \in DOMAIN ledger
                  /\ ledger[q.row.token_id].token_hash = sha256Hex(q.token)
                  /\ ledger[q.row.token_id].revoked_at # NULL
            /\ (q.pc = "rot_issue" \/ q.res.kind = "throw") => q.newId = 0
            /\ q.newId # 0 => q.res = Ok /\ q.newId \in DOMAIN ledger

\* the issueTokens of a rotation has failed after the old entry was revoked
C10_Witness ==
    \E p \in Rotations :
        LET q == procs[p]
        IN  /\ q.res.kind = "throw"
            /\ q.stmts = <<"SELECT", "UPDATE", "INSERT">>
            /\ ledger[q.row.token_id].revoked_at # NULL
            /\ q.newId = 0

---------------------------------------------------------------------------
\* the step in which slot p receives and executes a logout
LogoutStep(p) == calls' = calls + 1 /\ FreeSlot(p) /\ procs'[p].op = "logout"

Logouts == {p \in Procs : procs[p].op = "logout"}

\* the ledger rows holding the hash of token t
RowsOf(t) == {i \in DOMAIN ledger : ledger[i].token_hash = sha256Hex(t)}

\* C11: revocation is idempotent: a revokeRefreshToken(t) that follows a
\* completed revokeRefreshToken(t), no row holding the hash of t having been
\* created in between, returns without an error and leaves every ledger row
\* unchanged, the revoked_at written by the first call included.
C11_RevokeIdempotent ==
    [][\A p \in Procs :
          (/\ LogoutStep(p)
           /\ procs'[p].afterRevoke
           /\ \A i \in RowsOf(procs'[p].token) : ledger[i].revoked_at # NULL) =>
              /\ procs'[p].res = Ok
              /\ ledger' = ledger]_vars

\* a second revokeRefreshToken of a token has completed in a later second
\* than the one in which the first call revoked the token's row
C11_Witness ==
    \E p \in Logouts :
        LET q == procs[p]
        IN  /\ q.pc = "done" /\ q.afterRevoke /\ q.res = Ok
            /\ <<q.token, TRUE>> \in loggedOut
            /\ \E i \in RowsOf(q.token) :
                   ledger[i].revoked_at # NULL /\ ledger[i].revoked_at < now

\* C12: a revokeRefreshToken of a token no row holds returns without an
\* error and leaves the ledger unchanged; a revokeRefreshToken of a known
\* token changes nothing but the revoked_at of the rows holding its hash.
C12_RevokeFrame ==
    [][\A p \in Procs :
          LogoutStep(p) =>
              LET t == procs'[p].token
              IN  /\ procs'[p].res = Ok
                  /\ DOMAIN ledger' = DOMAIN ledger
                  /\ RowsOf(t) = {} => ledger' = ledger
                  /\ \A i \in DOMAIN ledger :
                        /\ i \notin RowsOf(t) => ledger'[i] = ledger[i]
                        /\ ledger'[i] = [ledger[i] EXCEPT
                                            !.revoked_at = ledger'[i].revoked_at]]_vars

\* a revokeRefreshToken has revoked the one row of its token while another
\* row of the ledger is still unrevoked
C12_Witness ==
    \E p \in Logouts :
        LET q == procs[p]
        IN  /\ q.pc = "done" /\ q.res = Ok /\ ~q.afterRevoke
            /\ \E i \in RowsOf(q.token) : ledger[i].revoked_at # NULL
            /\ \E j \in DOMAIN ledger \ RowsOf(q.token) : ledger[j].revoked_at = NULL

\* C13 as stated: a rotateRefreshToken(t) that comes in after a
\* revokeRefreshToken(t) completed for an issued token t always fails with
\* reason 'Refresh token revoked'.
C13_RevokedAfterLogout_AlwaysRevoked ==
    \A p \in Rotations :
        procs[p].afterRevoke /\ procs[p].pc = "done" => procs[p].res = Revoked

\* C13 amended: a rotateRefreshToken(t) that comes in after a
\* revokeRefreshToken(t) completed for an issued token t never gets past its
\* checks and never succeeds; it fails with 'Refresh token revoked', or with
\* 'Invalid refresh token' once the token's embedded expiry has passed.
C13_RevokedAfterLogout ==
    \A p \in Rotations :
        LET q == procs[p]
        IN  q.afterRevoke =>
              /\ q.pc \in {"rot_check", "done"}
              /\ ~Updated(q) /\ q.newId = 0
              /\ q.pc = "rot_check" => q.row # NoRow /\ q.row.revoked_at # NULL
              /\ q.pc = "done" =>
                    \/ q.res = Revoked
                    \/ q.res = Invalid /\ now >= q.token.exp

\* a rotation of a token that a logout had revoked, never rotated before, has
\* failed with 'Refresh token revoked'
C13_Witness ==
    \E p \in Rotations :
        LET q == procs[p]
        IN  /\ q.afterRevoke /\ ~q.after /\ q.pc = "done" /\ q.res = Revoked
            /\ q.token \notin rotated

\* C14: the rotation chain advances for any timing of the calls: a
\* rotateRefreshToken of a token whose row it found unrevoked and unexpired,
\* with no other call on that token before or beside it, returns a token
\* different from the one presented (the store's connection faults apart).
C14_ChainAdvances ==
    \A p \in Rotations :
        LET q == procs[p]
        IN  (/\ q.pc = "done" /\ Updated(q)
             /\ q.row.revoked_at = NULL
             /\ ~q.after /\ ~q.afterRevoke
             /\ \A r \in Procs \ {p} : procs[r].token # q.token) =>
                \/ q.res = Ok /\ q.refreshToken # q.token
                \/ q.res = Thrown("ECONNRESET")

\* C15: no entry returns to the usable state: once the revoked_at of an
\* entry is non-null, no rotateRefreshToken succeeds for the entry's token:
\* a call that returns ok found the entry unrevoked in the ledger when it
\* executed its own UPDATE.
C15_NoReturnToUsable ==
    \A p \in Rotations : procs[p].res = Ok => ~procs[p].stale

\* C16: the revoked_at of an entry is written at most once: a revoked_at
\* that is not null is never replaced by another timestamp.
C16_RevokedAtWrittenOnce ==
    [][\A i \in DOMAIN ledger :
          ledger[i].revoked_at # NULL =>
              ledger'[i].revoked_at = ledger[i].revoked_at]_vars

\* C17: no step removes a row or changes the token_id, token_hash,
\* expires_at, subject_type or subject_id of a row; rotation and revocation
\* change nothing in an existing row but revoked_at.
C17_ImmutableFields ==
    [][\A i \in DOMAIN ledger :
          /\ i \in DOMAIN ledger'
          /\ ledger'[i] = [ledger[i] EXCEPT !.revoked_at = ledger'[i].revoked_at]]_vars

\* a row that a rotation and a logout have both acted on is revoked and still
\* carries the hash, expiry and subject it was created with
C17_Witness ==
    \E p \in Rotations :
        LET q == procs[p]
        IN  /\ Updated(q) /\ <<q.token, TRUE>> \in loggedOut
            /\ ledger[q.row.token_id].revoked_at # NULL
            /\ ledger[q.row.token_id].token_hash = sha256Hex(q.token)
            /\ ledger[q.row.token_id].expires_at = refreshExpiresAt(q.token.iat)
            /\ ledger[q.row.token_id].subject_type = q.token.payload.typ
            /\ ToString(ledger[q.row.token_id].subject_id) = q.token.payload.sub

\* the step in which an issueTokens call, of a login or of the rotation in
\* slot p, returns its pair
IssueOk(p) ==
    /\ procs'[p].res = Ok
    /\ \/ procs[p].pc = "rot_issue"
       \/ calls' = calls + 1 /\ FreeSlot(p) /\ procs'[p].op = "login"

\* C18: no two ledger rows hold the same token_hash, and a successful
\* issueTokens never returns a refresh token that an earlier successful call
\* returned (every successful call leaves the row of its token, C4), issuance
\* for the same subject and claims within one second included.
C18_UniqueTokens ==
    /\ [](\A i, j \in DOMAIN ledger :
            i # j => ledger[i].token_hash # ledger[j].token_hash)
    /\ [][\A p \in Procs :
            IssueOk(p) =>
                \A i \in DOMAIN ledger :
                    ledger[i].token_hash # sha256Hex(procs'[p].refreshToken)]_vars

\* an issueTokens for the subject and claims of an earlier successful call,
\* in the same second, has been refused by the store: the one row of the
\* token is the earlier call's
C18_Witness ==
    \E p \in Procs :
        LET q == procs[p]
        IN  /\ q.op = "login" /\ q.res = Thrown("ER_DUP_ENTRY")
            /\ Cardinality(RowsOf(q.refreshToken)) = 1
            /\ \E i \in RowsOf(q.refreshToken) :
                   /\ ledger[i].subject_type = q.subjectType
                   /\ ledger[i].subject_id = q.subjectId
                   /\ ledger[i].expires_at = q.expiresAt

\* C19: the object a successful rotateRefreshToken returns carries, with the
\* new pair, the subjectType and subjectId of the consumed entry.
C19_ReturnsSubject ==
    \A p \in Rotations :
        LET q == procs[p]
            r == RotateReturn(q)
        IN  q.res = Ok =>
              /\ r.accessToken = q.accessToken /\ r.refreshToken = q.refreshToken
              /\ {"subjectType", "subjectId"} \subseteq DOMAIN r
              /\ r.subjectType = ledger[q.row.token_id].subject_type
              /\ r.subjectId = ledger[q.row.token_id].subject_id

\* the payload names the subject of the ledger row
NamesSubject(payload, row) ==
    payload.typ = row.subject_type /\ payload.sub = ToString(row.subject_id)

\* C20: subject preservation: the row and the two tokens created by a
\* successful rotateRefreshToken carry the subject_type and subject_id of the
\* consumed row, and the token of every row names the row's subject, so every
\* descendant of a login belongs to the subject that logged in.
C20_SubjectPreserved ==
    /\ \A p \in Rotations :
          LET q == procs[p]
          IN  q.res = Ok =>
                LET old == ledger[q.row.token_id]
                    new == ledger[q.newId]
                IN  /\ new.subject_type = old.subject_type
                    /\ new.subject_id = old.subject_id
                    /\ new.token_hash = sha256Hex(q.refreshToken)
                    /\ NamesSubject(q.refreshToken.payload, old)
                    /\ NamesSubject(q.accessToken.payload, old)
                    /\ NamesSubject(q.token.payload, old)
    /\ \A i \in DOMAIN ledger : NamesSubject(ledger[i].token_hash.of.payload, ledger[i])

\* a second-generation rotation has succeeded for the user: the token it
\* consumed was itself issued by a rotation
C20_Witness ==
    \E p \in Rotations :
        LET q == procs[p]
        IN  /\ q.res = Ok
            /\ DOMAIN q.token.payload = {"sub", "typ"}
            /\ ledger[q.row.token_id].subject_type = "user"
            /\ ledger[q.newId].subject_id = 42
            /\ q.newId = 3

\* C21: the tokens issued by rotateRefreshToken carry the claims typ and sub
\* only, whatever claims the token presented carried.
C21_RotationDropsClaims ==
    \A p \in Rotations :
        LET q == procs[p]
        IN  q.refreshToken # NoToken =>
              /\ DOMAIN q.refreshToken.payload = {"sub", "typ"}
              /\ DOMAIN q.accessToken.payload = {"sub", "typ"}
              /\ q.res = Ok => DOMAIN ledger[q.newId].token_hash.of.payload = {"sub", "typ"}

\* a rotation of the token of a user login, which carried role,
\* organization_id, group_id and license, has returned its pair
C21_Witness ==
    \E p \in Rotations :
        LET q == procs[p]
        IN  /\ q.res = Ok
            /\ {"role", "organization_id", "group_id", "license"}
                    \subseteq DOMAIN q.token.payload
            /\ q.refreshToken.payload = [sub |-> "42", typ |-> "user"]

\* the token presented is the access token that was signed with some
\* refresh token
IsAccessToken(t) == \E r \in minted : t = AccessOf(r)

\* C22: secret isolation: a rotateRefreshToken of a token produced by
\* signAccessToken fails with 'Invalid refresh token' before any statement,
\* although its payload is that of the refresh token it came with.
C22_SecretIsolation ==
    \A p \in Rotations :
        LET q == procs[p]
        IN  IsAccessToken(q.token) =>
              q.pc = "done" /\ q.res = Invalid /\ q.stmts = <<>>

\* an access token not yet past its own expiry, with the payload of a
\* refresh token in the ledger, has been refused
C22_Witness ==
    \E p \in Rotations :
        LET q == procs[p]
        IN  /\ IsAccessToken(q.token) /\ q.res = Invalid
            /\ now < q.token.exp
            /\ \E i \in DOMAIN ledger :
                   ledger[i].token_hash.of.payload = q.token.payload

\* the requests that call issueTokens
Issuers == {p \in Procs : procs[p].op \in {"login", "refresh"}}

\* no issueTokens has written a row, no login and no rotation has succeeded
NothingIssued ==
    /\ Len(ledger) = 1
    /\ \A p \in Issuers :
          LET q == procs[p]
          IN  /\ q.res # Ok /\ q.newId = 0
              /\ \A k \in DOMAIN q.stmts : q.stmts[k] # "INSERT"
              /\ q.op = "login" /\ q.pc = "done" => q.res = Thrown(SignError)

\* C23 as stated (SpecEnv): with a secret absent, every issueTokens fails at
\* signing and writes no row, and no step of a rotateRefreshToken changes
\* the ledger.
C23_MissingSecret_LedgerUntouched ==
    /\ []NothingIssued
    /\ [][(\A p \in Procs : ~LogoutStep(p)) => ledger' = ledger]_vars

\* C23 amended (SpecEnv): with a secret absent, every issueTokens fails at
\* signing and writes no row and no rotateRefreshToken succeeds; with
\* REFRESH_TOKEN_SECRET absent every rotation fails 'Invalid refresh token'
\* and leaves the ledger unchanged; with ACCESS_TOKEN_SECRET alone absent a
\* rotation that fails at signing has revoked the entry of its token.
C23_MissingSecret ==
    /\ []NothingIssued
    /\ [](\A p \in Rotations :
            LET q == procs[p]
            IN  /\ REFRESH_TOKEN_SECRET = Absent =>
                      q.pc = "done" /\ q.res = Invalid /\ q.stmts = <<>>
                /\ q.res.kind = "throw" =>
                      /\ q.res = Thrown(SignError)
                      /\ q.stmts = <<"SELECT", "UPDATE">>
                      /\ ledger[q.row.token_id].revoked_at # NULL)
    /\ [][(REFRESH_TOKEN_SECRET = Absent /\ \A p \in Procs : ~LogoutStep(p)) =>
                ledger' = ledger]_vars

\* with ACCESS_TOKEN_SECRET alone absent, the rotation of the token of the
\* earlier run has thrown at signing, the token's entry revoked, no row added
C23_Witness ==
    \E p \in Rotations :
        LET q == procs[p]
        IN  /\ ACCESS_TOKEN_SECRET = Absent /\ REFRESH_TOKEN_SECRET # Absent
            /\ q.token = PriorToken /\ q.res = Thrown(SignError)
            /\ ledger[1].revoked_at # NULL /\ Len(ledger) = 1

\* C24: the expected failures of rotateRefreshToken are returned as failure
\* values, not thrown: a call that ends before its UPDATE ends with one of
\* the four reasons, a call that ends with a failure value has executed no
\* UPDATE, and POST /auth/refresh answers 401 with that reason.
C24_FailuresAre401 ==
    \A p \in Rotations :
        LET q == procs[p]
        IN  /\ (q.pc = "done" /\ ~Updated(q)) =>
                  q.res \in {Invalid, NotFound, Revoked, Expired}
            /\ q.res.kind = "fail" =>
                  /\ ~Updated(q)
                  /\ Answer(q) = Response(401, q.res.reason)

\* a refresh request whose token passed verification has been answered 401
\* 'Refresh token expired' after its SELECT, the ledger as it was
C24_Witness ==
    \E p \in Rotations :
        LET q == procs[p]
        IN  /\ q.res = Expired /\ q.stmts = <<"SELECT">>
            /\ Answer(q) = Response(401, "Refresh token expired")
            /\ ledger[q.row.token_id].revoked_at = NULL

\* C25: a storage error raised while a login, a refresh or a logout is
\* handled is answered 500 'Internal server error', whatever its code.
C25_StorageErrorsAre500 ==
    \A p \in Procs :
        LET q == procs[p]
        IN  (q.res.kind = "throw" /\ q.res.reason # SignError) =>
                Answer(q) = Response(500, "Internal server error")

\* C26 (SpecBody): POST /auth/logout answers 'Logout successful' whatever
\* value the body holds as refresh_token, unknown, revoked, expired or
\* malformed (a body without the field or with a falsy one apart, which the
\* handler refuses with 400).
C26_LogoutAlwaysSucceeds ==
    \A p \in Logouts :
        LET q == procs[p]
        IN  q.pc = "done" =>
              \/ Answer(q) = Response(200, "Logout successful")
              \/ Answer(q) = Response(400, "refresh_token is required")

\* the step in which slot p receives a refresh request, verifies and SELECTs
RefreshStep(p) == calls' = calls + 1 /\ FreeSlot(p) /\ procs'[p].op = "refresh"

\* C27: a rotateRefreshToken that returns a failure leaves the ledger
\* unchanged: none of its steps changes the ledger, and it has executed no
\* UPDATE and no INSERT.
C27_FailureLeavesLedger ==
    /\ [](\A p \in Rotations :
            procs[p].res.kind = "fail" =>
                procs[p].stmts \in {<<>>, <<"SELECT">>} /\ procs[p].newId = 0)
    /\ [][\A p \in Procs :
            (\/ RefreshStep(p)
             \/ procs[p].pc = "rot_check" /\ procs'[p].res.kind = "fail") =>
                ledger' = ledger]_vars

\* a rotation of a token whose row another request revoked earlier has
\* returned 'Refresh token revoked' in a later second; the row keeps the
\* earlier timestamp
C27_Witness ==
    \E p \in Rotations :
        LET q == procs[p]
        IN  /\ q.res = Revoked /\ q.stmts = <<"SELECT">>
            /\ ledger[q.row.token_id].revoked_at = q.row.revoked_at
            /\ q.row.revoked_at < now
            /\ \E i \in DOMAIN ledger : ledger[i].revoked_at = NULL

\* C28: once a revokeRefreshToken(t) that found the row of t has completed
\* (the logout has been answered), no rotateRefreshToken(t) that was in
\* progress, having read the row before the logout and reaching its UPDATE
\* after the row was revoked, issues a token pair.
C28_LogoutStopsRotation ==
    [][\A p \in Procs :
          (procs[p].pc = "rot_issue" /\ procs[p].stale /\ procs'[p].res = Ok) =>
              <<procs[p].token, TRUE>> \notin loggedOut]_vars

\* C29: the expires_at of every ledger entry is not earlier than the expiry
\* embedded in the refresh token the entry was written for.
C29_LedgerExpiryCoversToken ==
    \A i \in DOMAIN ledger : ledger[i].expires_at >= ledger[i].token_hash.of.exp

\* the step by which request p issues a token pair: a login or a rotation
\* whose issueTokens returns
IssueStep(p) ==
    /\ procs'[p].res = Ok
    /\ \/ procs[p].pc = "rot_issue"
       \/ FreeSlot(p) /\ calls' = calls + 1 /\ procs'[p].op = "login"

\* C30: no login and no rotation issues a token pair for a subject whose
\* active_status is 0 at that time.
C30_NoIssueForInactive ==
    [][\A p \in Procs :
          IssueStep(p) =>
              \A s \in Deactivatable :
                  (procs'[p].subjectType = s.typ /\ procs'[p].subjectId = s.id)
                      => m_user[UserIndex(s.id)].active_status # 0]_vars

\* C31: a rotateRefreshToken that comes in when the user its ledger row
\* names has been deleted does not issue a token pair.
C31_NoIssueForDeleted ==
    \A p \in Rotations : procs[p].orphan => procs[p].res # Ok

\* the step by which the user login request p is received and answered
UserLoginStep(p) ==
    /\ FreeSlot(p) /\ calls' = calls + 1
    /\ procs'[p].op = "login" /\ procs'[p].subjectType = "user"

\* the body of request q names no row of m_user, or names one with a
\* password that is not the one the row's hash was made from
BadCredentials(q) ==
    \A user \in SelectUserByEmail(m_user, q.email) :
        ~bcryptCompare(q.password, user.password)

\* C32: a user login with an unknown email or a wrong password is answered
\* 401 'Invalid credentials' and leaves the ledger unchanged.
C32_BadCredentialsAre401 ==
    [][\A p \in Procs :
          (UserLoginStep(p) /\ BadCredentials(procs'[p])) =>
              /\ Answer(procs'[p]) = Response(401, "Invalid credentials")
              /\ ledger' = ledger]_vars

\* what the user login answers when no row has the email
UnknownEmailAnswer == Response(401, "Invalid credentials")

\* C33: a user login with a wrong password for an email that has a row, in
\* any state of the row, is answered as a login for an email without a row.
C33_SameAnswerForExistingAccount ==
    [][\A p \in Procs :
          (/\ UserLoginStep(p)
           /\ SelectUserByEmail(m_user, procs'[p].email) # {}
           /\ BadCredentials(procs'[p])) =>
              Answer(procs'[p]) = UnknownEmailAnswer]_vars

\* C34: a user login with the email of an active row of m_user and the
\* password that was sent when the row was created passes the password
\* check.
C34_CreateThenLogin ==
    [][\A p \in Procs :
          UserLoginStep(p) =>
              \A user \in SelectUserByEmail(m_user, procs'[p].email) :
                  (user.active_status = 1 /\ procs'[p].password = user.password.of)
                      => procs'[p].res # Failure("Invalid credentials")]_vars

\* C35: no two organizations hold the same code, and a POST /organizations
\* without code is answered 'Organization email already exists' only when a
\* row holds its email.
C35_GeneratedCodeUnique ==
    /\ \A i, j \in DOMAIN m_organization :
          i # j => m_organization[i].code # m_organization[j].code
    /\ \A p \in Procs :
          (/\ reqs[p].op = "org_post" /\ reqs[p].pc = "done"
           /\ reqs[p].res = Failure("Organization email already exists")) =>
              SelectOrgByEmail(m_organization, reqs[p].email) # {}

\* C36: no two DELETE /:id requests for the same row of a table are both
\* answered with success.
C36_OneDeletePerRow ==
    \A p, q \in Procs :
        (/\ p # q
         /\ reqs[p].op = "delete" /\ reqs[p].pc = "done" /\ reqs[p].res = Ok
         /\ reqs[q].op = "delete" /\ reqs[q].pc = "done" /\ reqs[q].res = Ok
         /\ reqs[p].table = reqs[q].table)
            => reqs[p].id # reqs[q].id

\* C37: a PATCH /:id or PUT /:id answered with success carries the row with
\* that id as its data.
C37_UpdateAnswersRow ==
    \A p \in Procs :
        (reqs[p].op \in {"patch", "put"} /\ reqs[p].pc = "done" /\ reqs[p].res = Ok)
            => reqs[p].data # Undefined /\ reqs[p].data.id = reqs[p].id

\* the step by which the GET /products/:key request p is answered
GetStep(p) ==
    reqs'[p] # reqs[p] /\ reqs'[p].op = "get" /\ reqs'[p].pc = "done"

\* C38: a GET /products/:key whose key is the numeric id or the _id of a
\* product is answered with that product, and a key that is the _id of a
\* product is looked up in the _id column.
C38_FetchByBothKeys ==
    [][\A p \in Procs :
          GetStep(p) =>
              LET q == reqs'[p]
              IN  \A i \in DOMAIN products :
                      /\ q.key = products[i]._id => q.keyType = "_id"
                      /\ (q.key = products[i]._id \/ q.key = String(products[i].id))
                            => q.res = Ok /\ q.data.id = products[i].id]_vars

====
